---- MODULE Spec2Model ----
(***************************************************************************)
(* UnifiedLLMOrchestrator (src/UnifiedLLMOrchestrator.ts): provider        *)
(* registry, rate-limited selection and fallback of generate().            *)
(*                                                                         *)
(* JavaScript runs each generate() call to its next await without          *)
(* interleaving, so one action is one synchronous section of generate():   *)
(*   Generate         selectProvider, recordRequest, start of callProvider *)
(*   SelectProvider   selectProvider called on its own (a public method)   *)
(*   PrimaryResolves  the awaited callProvider returned a value            *)
(*   PrimaryRejects   it threw: getFallbackProvider, start of the second   *)
(*                    callProvider, or rethrow                             *)
(*   FallbackResolves / FallbackRejects   outcome of the second call       *)
(* Several calls may be in flight at once; they interleave at the awaits.  *)
(* callProvider is the opaque collaborator: whether an invocation returns  *)
(* or throws is the environment's choice, made anew for every invocation.  *)
(* Every rate-limit check reads the wall clock itself, so the clock may     *)
(* move between two checks of one section.                                 *)
(***************************************************************************)
EXTENDS Integers, Sequences, FiniteSets, TLC

\* ------------------------------------------------------------------ bounds
\* generate() calls made in one behaviour (all of them may be in flight at
\* the same time)
MaxCalls == 2
\* the latest instant of the clock that is explored (milliseconds): 61 s
MaxNow == 61000
\* a provider starts with no request counted, or this many requests below
\* its rateLimit
Headroom == 1
\* calls made in a scenario run, one after the other
ScenarioCalls == 8
\* calls made in a burst run, one after the other
BurstCalls == 23

\* recordQuery calls explored beyond the point where queryHistory is full
MaxQueries == 150

\* --------------------------------------------------------------- constants
\* isWithinRateLimit: "now - lastReset > 60000"
WindowMs == 60000

\* LearningEngine: "private maxHistorySize = 10000"
maxHistorySize == 10000
\* LearningEngine.recordQuery: "this.queryHistory.length % 100 === 0"
LearnEvery == 100

\* providerConfigs: the fields selection reads (name, priority,
\* capabilities, rateLimit), in catalog order
providerConfigs ==
  << [name |-> "Claude", priority |-> 1, rateLimit |-> 60,
      capabilities |-> {"reasoning", "coding", "analysis", "creative", "long-context"}],
     [name |-> "OpenAI", priority |-> 2, rateLimit |-> 60,
      capabilities |-> {"reasoning", "coding", "analysis", "creative", "function-calling"}],
     [name |-> "DeepSeek", priority |-> 3, rateLimit |-> 100,
      capabilities |-> {"reasoning", "coding", "math", "analysis"}],
     [name |-> "Ollama", priority |-> 4, rateLimit |-> 1000,
      capabilities |-> {"reasoning", "coding", "local", "offline"}],
     [name |-> "Gemini", priority |-> 5, rateLimit |-> 60,
      capabilities |-> {"reasoning", "multimodal", "analysis", "vision"}],
     [name |-> "Cohere", priority |-> 6, rateLimit |-> 100,
      capabilities |-> {"reasoning", "enterprise", "rag", "embeddings"}],
     [name |-> "HuggingFace", priority |-> 7, rateLimit |-> 30,
      capabilities |-> {"reasoning", "open-source", "custom-models"}],
     [name |-> "Mistral", priority |-> 8, rateLimit |-> 60,
      capabilities |-> {"reasoning", "coding", "multilingual", "european"}],
     [name |-> "Perplexity", priority |-> 9, rateLimit |-> 20,
      capabilities |-> {"search", "real-time", "citations", "web-access"}],
     [name |-> "Groq", priority |-> 10, rateLimit |-> 100,
      capabilities |-> {"fast-inference", "reasoning", "speed-optimized"}],
     [name |-> "TogetherAI", priority |-> 11, rateLimit |-> 60,
      capabilities |-> {"fine-tuning", "custom-models", "reasoning"}] >>

\* the catalog entry of a name
Config(n) == CHOOSE c \in {providerConfigs[i] : i \in 1..Len(providerConfigs)} : c.name = n

\* credentialManager.isConfigured: the credentials present at construction
\* are drawn from these providers (any subset of them)
Configurable == {"Claude", "Gemini"}

\* "no provider": selectProvider / getFallbackProvider returning null
NoProvider == [name |-> "", priority |-> 0, rateLimit |-> 0, capabilities |-> {}]

\* the requests generate() is called with: preferredProvider ("" = unset)
\* and requiredCapabilities
Requests ==
  { [preferredProvider |-> "",       requiredCapabilities |-> {}],
    [preferredProvider |-> "",       requiredCapabilities |-> {"vision"}],
    [preferredProvider |-> "Ollama", requiredCapabilities |-> {}] }

\* a request without preference and without required capabilities
BareRequest == [preferredProvider |-> "", requiredCapabilities |-> {}]

\* the instants the clock is read at after construction: exactly one window
\* after time 0, one millisecond later, and MaxNow
Instants == {WindowMs, WindowMs + 1, MaxNow}

VARIABLES
  providers,      \* Map name -> LLMProvider, as the sequence of its values in insertion order
  requestCounts,  \* Map name -> number
  lastReset,      \* time of the last reset (ms)
  now,            \* the wall clock (ms)
  calls,          \* the generate() calls made so far, each with its position
  invoked,        \* per provider: callProvider calls since the last reset
  admitLog,       \* the ledger of the scenario runs: the admissions recorded, with their instants
  observed,       \* what the last introspection call (getStatus, getAvailableProviders) returned
  engine          \* the LearningEngine (src/unnamed/part_002): queryHistory and the runs of learnAdaptations

vars == <<providers, requestCounts, lastReset, now, calls, invoked, admitLog, observed, engine>>

\* ------------------------------------------------------------ the registry
\* initializeProviders: catalog entries whose credential is configured, and Ollama
initializeProviders(configured) ==
  SelectSeq(providerConfigs, LAMBDA c : c.name \in configured \/ c.name = "Ollama")

\* the keys of the providers map
ProviderNames(provs) == {provs[i].name : i \in 1..Len(provs)}

\* providers.get(name)
ProvidersGet(provs, n) ==
  IF n \in ProviderNames(provs)
  THEN CHOOSE c \in {provs[i] : i \in 1..Len(provs)} : c.name = n
  ELSE NoProvider

\* one step of the stable sort: x goes after every entry whose priority is
\* not greater than its own
RECURSIVE InsertByPriority(_, _)
InsertByPriority(x, s) ==
  IF s = <<>> THEN <<x>>
  ELSE IF x.priority - Head(s).priority < 0 THEN <<x>> \o s
  ELSE <<Head(s)>> \o InsertByPriority(x, Tail(s))

RECURSIVE SortByPriority(_)
SortByPriority(s) ==
  IF s = <<>> THEN <<>>
  ELSE InsertByPriority(s[Len(s)], SortByPriority(SubSeq(s, 1, Len(s) - 1)))

\* getAvailableProviders with the comparison reversed (b.priority - a.priority)
getAvailableProvidersDescending(provs) ==
  LET sorted == SortByPriority(provs)
  IN [i \in 1..Len(sorted) |-> sorted[Len(sorted) + 1 - i]]

\* getAvailableProviders
getAvailableProviders(provs) == SortByPriority(provs)

\* ------------------------------------------------------------ rate limiting
\* requestCounts.get(name) || 0
CountOf(rc, n) == IF n \in DOMAIN rc THEN rc[n] ELSE 0

\* isWithinRateLimit with the comparison "count <= rateLimit"
isWithinRateLimitInclusive(provider, st, t) ==
  LET stale == t - st.lastReset > WindowMs
      rc == IF stale THEN [k \in DOMAIN st.requestCounts |-> 0] ELSE st.requestCounts
      lr == IF stale THEN t ELSE st.lastReset
  IN [ok |-> CountOf(rc, provider.name) <= provider.rateLimit,
      st |-> [requestCounts |-> rc, lastReset |-> lr]]

\* isWithinRateLimit reading the count before the reset
isWithinRateLimitStaleRead(provider, st, t) ==
  LET stale == t - st.lastReset > WindowMs
      rc == IF stale THEN [k \in DOMAIN st.requestCounts |-> 0] ELSE st.requestCounts
      lr == IF stale THEN t ELSE st.lastReset
  IN [ok |-> CountOf(st.requestCounts, provider.name) < provider.rateLimit,
      st |-> [requestCounts |-> rc, lastReset |-> lr]]

\* isWithinRateLimit moving the window start without clearing the counts
isWithinRateLimitNoClear(provider, st, t) ==
  LET stale == t - st.lastReset > WindowMs
      lr == IF stale THEN t ELSE st.lastReset
  IN [ok |-> CountOf(st.requestCounts, provider.name) < provider.rateLimit,
      st |-> [requestCounts |-> st.requestCounts, lastReset |-> lr]]

\* isWithinRateLimit taking a clock behind the window start for a stale window
isWithinRateLimitResetOnRetreat(provider, st, t) ==
  LET stale == t < st.lastReset \/ t - st.lastReset > WindowMs
      rc == IF stale THEN [k \in DOMAIN st.requestCounts |-> 0] ELSE st.requestCounts
      lr == IF stale THEN t ELSE st.lastReset
  IN [ok |-> CountOf(rc, provider.name) < provider.rateLimit,
      st |-> [requestCounts |-> rc, lastReset |-> lr]]

\* isWithinRateLimit resetting as soon as the clock has moved
isWithinRateLimitEarlyReset(provider, st, t) ==
  LET stale == t - st.lastReset > 0
      rc == IF stale THEN [k \in DOMAIN st.requestCounts |-> 0] ELSE st.requestCounts
      lr == IF stale THEN t ELSE st.lastReset
  IN [ok |-> CountOf(rc, provider.name) < provider.rateLimit,
      st |-> [requestCounts |-> rc, lastReset |-> lr]]

\* isWithinRateLimit at time t on the limiter state st = [requestCounts, lastReset]:
\* the answer and the limiter state it leaves
isWithinRateLimit(provider, st, t) ==
  LET stale == t - st.lastReset > WindowMs
      rc == IF stale THEN [k \in DOMAIN st.requestCounts |-> 0] ELSE st.requestCounts
      lr == IF stale THEN t ELSE st.lastReset
  IN [ok |-> CountOf(rc, provider.name) < provider.rateLimit,
      st |-> [requestCounts |-> rc, lastReset |-> lr]]

\* recordRequest counting a request twice
recordRequestTwice(provider, rc) ==
  [rc EXCEPT ![provider.name] = CountOf(rc, provider.name) + 2]

\* recordRequest
recordRequest(provider, rc) ==
  [rc EXCEPT ![provider.name] = CountOf(rc, provider.name) + 1]

\* ---------------------------------------------------------------- selection
\* request.requiredCapabilities.every(cap => provider.capabilities.includes(cap))
hasAllCapabilities(request, provider) ==
  \A cap \in request.requiredCapabilities : cap \in provider.capabilities

\* Every isWithinRateLimit call reads the clock itself ("const now = new
\* Date()"), so the checks of one selection may see different instants.
\* reads is the script of the clock for a synchronous section: reads[1] is
\* what the next "new Date()" returns, and the last instant of the script
\* is what every later read returns.
ReadClock(reads) == Head(reads)

\* the script after one read
Later(reads) == IF Len(reads) > 1 THEN Tail(reads) ELSE reads

\* The scripts of a section that starts at t0 with the window started at
\* start and makes at most n reads: the clock stands still, or it moves
\* once, before the k-th read, from inside the window to an instant past
\* its end. (Every check answers the same at two instants inside the
\* window, and the first check past its end starts a new window that the
\* instants explored do not leave: any other move of the clock during the
\* section gives what a move before or after the section gives.)
ClockScripts(t0, start, n, instants) ==
  LET past == {u \in instants : u > t0 /\ t0 - start <= WindowMs /\ u - start > WindowMs}
  IN IF past = {} THEN {<<t0>>}
     ELSE {<<t0>>} \cup {[i \in 1..k |-> IF i < k THEN t0 ELSE t] : k \in 2..n, t \in past}

\* "for (const provider of available)" from index i: the first provider
\* whose name is in wanted and that is within its rate limit (the rate limit
\* is only asked of the providers in wanted). The result carries the limiter
\* state left, the rest of the clock script, the instant of the last check
\* and the number of clock reads made.
RECURSIVE FirstWithin(_, _, _, _, _)
FirstWithin(available, i, wanted, st, reads) ==
  IF i > Len(available) THEN [provider |-> NoProvider, st |-> st, reads |-> reads, at |-> ReadClock(reads), made |-> 0]
  ELSE IF available[i].name \notin wanted THEN FirstWithin(available, i + 1, wanted, st, reads)
  ELSE LET r == isWithinRateLimit(available[i], st, ReadClock(reads))
       IN IF r.ok THEN [provider |-> available[i], st |-> r.st, reads |-> Later(reads), at |-> ReadClock(reads), made |-> 1]
          ELSE [FirstWithin(available, i + 1, wanted, r.st, Later(reads)) EXCEPT !.made = @ + 1]

\* the names of the providers of a list that have every required capability
Capable(request, available) ==
  {available[i].name : i \in {j \in 1..Len(available) : hasAllCapabilities(request, available[j])}}

\* the names of the providers of a list
NamesOf(available) == {available[i].name : i \in 1..Len(available)}

\* selectProvider's loops looking at the first provider of the list only
selectUnpreferredFirstOnly(request, available, st, reads) ==
  LET r == isWithinRateLimit(available[1], st, ReadClock(reads))
  IN IF r.ok THEN [provider |-> available[1], st |-> r.st, reads |-> Later(reads), at |-> ReadClock(reads), made |-> 1]
     ELSE [provider |-> NoProvider, st |-> r.st, reads |-> Later(reads), at |-> ReadClock(reads), made |-> 1]

\* selectProvider, after the preferred provider was not returned
selectUnpreferred(request, available, st, reads) ==
  LET byCap == IF request.requiredCapabilities # {}
               THEN FirstWithin(available, 1, Capable(request, available), st, reads)
               ELSE [provider |-> NoProvider, st |-> st, reads |-> reads, at |-> ReadClock(reads), made |-> 0]
  IN IF byCap.provider.name # "" THEN byCap
     ELSE [FirstWithin(available, 1, NamesOf(available), byCap.st, byCap.reads)
             EXCEPT !.made = @ + byCap.made]

\* selectProvider returning the preferred provider without asking its rate limit
selectProviderPreferredUnchecked(request, provs, st, reads) ==
  LET available == getAvailableProviders(provs)
      preferred == ProvidersGet(provs, request.preferredProvider)
      asked     == request.preferredProvider # "" /\ preferred.name # ""
  IN IF Len(available) = 0 THEN [provider |-> NoProvider, st |-> st, reads |-> reads, at |-> ReadClock(reads), made |-> 0]
     ELSE IF asked THEN [provider |-> preferred, st |-> st, reads |-> reads, at |-> ReadClock(reads), made |-> 0]
     ELSE selectUnpreferred(request, available, st, reads)

\* selectProvider
selectProvider(request, provs, st, reads) ==
  LET available == getAvailableProviders(provs)
      preferred == ProvidersGet(provs, request.preferredProvider)
      asked     == request.preferredProvider # "" /\ preferred.name # ""
      pr        == isWithinRateLimit(preferred, st, ReadClock(reads))
  IN IF Len(available) = 0 THEN [provider |-> NoProvider, st |-> st, reads |-> reads, at |-> ReadClock(reads), made |-> 0]
     ELSE IF asked /\ pr.ok
          THEN [provider |-> preferred, st |-> pr.st, reads |-> Later(reads), at |-> ReadClock(reads), made |-> 1]
     ELSE IF asked THEN [selectUnpreferred(request, available, pr.st, Later(reads)) EXCEPT !.made = @ + 1]
     ELSE selectUnpreferred(request, available, st, reads)

\* available.findIndex(p => p.name === current.name), 1-based; 0 when absent
findIndex(available, n) ==
  IF \E i \in 1..Len(available) : available[i].name = n
  THEN CHOOSE i \in 1..Len(available) :
         available[i].name = n /\ \A j \in 1..(i - 1) : available[j].name # n
  ELSE 0

\* getFallbackProvider with the loop starting at currentIndex
getFallbackProviderFromCurrent(current, provs, st, reads) ==
  LET available == getAvailableProviders(provs)
      currentIndex == findIndex(available, current.name)
  IN FirstWithin(available, currentIndex, NamesOf(available), st, reads)

\* getFallbackProvider returning the next provider without asking its rate limit
getFallbackProviderUnchecked(current, provs, st, reads) ==
  LET available == getAvailableProviders(provs)
      currentIndex == findIndex(available, current.name)
  IN [provider |-> IF currentIndex + 1 <= Len(available) THEN available[currentIndex + 1] ELSE NoProvider,
      st |-> st, reads |-> reads, at |-> ReadClock(reads), made |-> 0]

\* getFallbackProvider
getFallbackProvider(current, provs, st, reads) ==
  LET available == getAvailableProviders(provs)
      currentIndex == findIndex(available, current.name)
  IN FirstWithin(available, currentIndex + 1, NamesOf(available), st, reads)

\* ------------------------------------------------------------------- state
\* no introspection call made yet
NoObservation == [op |-> "", value |-> <<>>]

\* a LearningEngine after construction: queryHistory empty (its entries are
\* the recorded queries numbered first..last, oldest first), learnAdaptations
\* not yet run, no query recorded
NewEngine == [queryHistory |-> [first |-> 1, last |-> 0], learnAdaptations |-> 0, recorded |-> 0]

Limiter == [requestCounts |-> requestCounts, lastReset |-> lastReset]

\* a call: where it stands (awaitPrimary, awaitFallback, returned, thrown),
\* its request, the provider selected, the fallback invoked and the error thrown
NewCall(pc, request, provider, error) ==
  [pc |-> pc, request |-> request, provider |-> provider, fallback |-> "", error |-> error]

CallIds == 1..Len(calls)

\* the providers a call has invoked, in order
Attempted(c) ==
  (IF c.provider # "" THEN <<c.provider>> ELSE <<>>) \o
  (IF c.fallback # "" THEN <<c.fallback>> ELSE <<>>)

\* the invocation counters after a step that left the limiter in st and
\* invoked the providers in ns
Invoked(st, ns) ==
  LET base == IF st.lastReset # lastReset THEN [k \in DOMAIN invoked |-> 0] ELSE invoked
  IN [k \in DOMAIN base |-> IF k \in ns THEN base[k] + 1 ELSE base[k]]

\* The state after construction (every count 0, no call made), or a state of
\* the first window that successful generate() calls reach from it: some
\* providers stand Headroom requests below their rateLimit, each of those
\* requests invoked and answered.
Init ==
  /\ \E configured \in SUBSET Configurable : providers = initializeProviders(configured)
  /\ \E warm \in SUBSET ProviderNames(providers) :
        requestCounts = [n \in ProviderNames(providers) |->
                           IF n \in warm THEN Config(n).rateLimit - Headroom ELSE 0]
  /\ invoked = requestCounts
  /\ lastReset = 0
  /\ now = 0
  /\ calls = <<>>
  /\ admitLog = <<>>
  /\ observed = NoObservation
  /\ engine = NewEngine

\* the clock reads a selectProvider call makes when the clock stands still
\* at t0 (a move of the clock before a later read than these is not seen)
SelectionReads(request, provs, st, t0) == selectProvider(request, provs, st, <<t0>>).made

\* the clock reads a getFallbackProvider call makes when the clock stands
\* still at t0
FallbackReads(current, provs, st, t0) == getFallbackProvider(current, provs, st, <<t0>>).made

\* selectProvider called on its own (it is a public method): the rate-limit
\* checks it makes may reset the window; nothing is recorded, no call
\* starts, and its return value is not kept
SelectStep(request, reads) ==
  /\ \E sel \in {selectProvider(request, providers, Limiter, reads)} :
        /\ requestCounts' = sel.st.requestCounts
        /\ lastReset' = sel.st.lastReset
        /\ invoked' = Invoked(sel.st, {})
        /\ now' = ReadClock(sel.reads)
  /\ UNCHANGED <<providers, calls, admitLog, observed, engine>>

\* a selectProvider call made from outside generate()
SelectProvider(request) ==
  \E reads \in ClockScripts(now, lastReset, SelectionReads(request, providers, Limiter, now), Instants) :
    SelectStep(request, reads)

\* generate(), up to the first await: selectProvider, then the throw or
\* recordRequest and the start of callProvider; reads is what the clock
\* shows to the rate-limit checks of the selection
GenerateStep(request, reads) ==
  /\ \E sel \in {selectProvider(request, providers, Limiter, reads)} :
        /\ now' = ReadClock(sel.reads)
        /\ IF sel.provider.name = ""
           THEN /\ calls' = Append(calls, NewCall("thrown", request, "", "No LLM provider available"))
                /\ requestCounts' = sel.st.requestCounts
                /\ lastReset' = sel.st.lastReset
                /\ invoked' = Invoked(sel.st, {})
           ELSE /\ calls' = Append(calls, NewCall("awaitPrimary", request, sel.provider.name, ""))
                /\ requestCounts' = recordRequest(sel.provider, sel.st.requestCounts)
                /\ lastReset' = sel.st.lastReset
                /\ invoked' = Invoked(sel.st, {sel.provider.name})
  /\ UNCHANGED <<providers, observed, engine>>

\* generate() leaving out the providers whose invocation failed in earlier calls
GenerateExcludingFailed(request) ==
  /\ Len(calls) < MaxCalls
  /\ \E reads \in ClockScripts(now, lastReset, SelectionReads(request, providers, Limiter, now), Instants) :
       \E sel \in {selectProvider(request,
                                    SelectSeq(providers, LAMBDA p : p.name \notin
                                      {calls[c].provider : c \in {d \in CallIds : calls[d].pc \in {"awaitFallback", "thrown"}}}),
                                    Limiter, reads)} :
          /\ now' = ReadClock(sel.reads)
          /\ IF sel.provider.name = ""
             THEN /\ calls' = Append(calls, NewCall("thrown", request, "", "No LLM provider available"))
                  /\ requestCounts' = sel.st.requestCounts
                  /\ lastReset' = sel.st.lastReset
                  /\ invoked' = Invoked(sel.st, {})
             ELSE /\ calls' = Append(calls, NewCall("awaitPrimary", request, sel.provider.name, ""))
                  /\ requestCounts' = recordRequest(sel.provider, sel.st.requestCounts)
                  /\ lastReset' = sel.st.lastReset
                  /\ invoked' = Invoked(sel.st, {sel.provider.name})
  /\ UNCHANGED <<providers, admitLog, observed, engine>>

\* a generate() call, made while other calls may be in flight
Generate(request) ==
  /\ Len(calls) < MaxCalls
  /\ \E reads \in ClockScripts(now, lastReset, SelectionReads(request, providers, Limiter, now), Instants) :
       GenerateStep(request, reads)
  /\ UNCHANGED admitLog

\* "await this.callProvider(provider, request)" returned: generate returns
PrimaryResolves(c) ==
  /\ calls[c].pc = "awaitPrimary"
  /\ calls' = [calls EXCEPT ![c].pc = "returned"]
  /\ UNCHANGED <<providers, requestCounts, lastReset, now, invoked, admitLog, observed, engine>>

\* the catch block giving the failed provider its request back
PrimaryRejectsRefunding(c) ==
  /\ calls[c].pc = "awaitPrimary"
  /\ \E reads \in ClockScripts(now, lastReset,
                               FallbackReads(ProvidersGet(providers, calls[c].provider), providers, Limiter, now),
                               Instants) :
     \E fb \in {getFallbackProvider(ProvidersGet(providers, calls[c].provider), providers, Limiter, reads)} :
        /\ now' = ReadClock(fb.reads)
        /\ requestCounts' = [fb.st.requestCounts EXCEPT ![calls[c].provider] = IF @ > 0 THEN @ - 1 ELSE 0]
        /\ lastReset' = fb.st.lastReset
        /\ IF fb.provider.name # ""
           THEN /\ calls' = [calls EXCEPT ![c].pc = "awaitFallback", ![c].fallback = fb.provider.name]
                /\ invoked' = Invoked(fb.st, {fb.provider.name})
           ELSE /\ calls' = [calls EXCEPT ![c].pc = "thrown", ![c].error = calls[c].provider]
                /\ invoked' = Invoked(fb.st, {})
  /\ UNCHANGED <<providers, admitLog, observed, engine>>

\* the catch block taking the failed provider out of the providers map
PrimaryRejectsDisabling(c) ==
  /\ calls[c].pc = "awaitPrimary"
  /\ \E reads \in ClockScripts(now, lastReset,
                               FallbackReads(ProvidersGet(providers, calls[c].provider), providers, Limiter, now),
                               Instants) :
     \E fb \in {getFallbackProvider(ProvidersGet(providers, calls[c].provider), providers, Limiter, reads)} :
        /\ now' = ReadClock(fb.reads)
        /\ requestCounts' = fb.st.requestCounts
        /\ lastReset' = fb.st.lastReset
        /\ providers' = SelectSeq(providers, LAMBDA p : p.name # calls[c].provider)
        /\ IF fb.provider.name # ""
           THEN /\ calls' = [calls EXCEPT ![c].pc = "awaitFallback", ![c].fallback = fb.provider.name]
                /\ invoked' = Invoked(fb.st, {fb.provider.name})
           ELSE /\ calls' = [calls EXCEPT ![c].pc = "thrown", ![c].error = calls[c].provider]
                /\ invoked' = Invoked(fb.st, {})
  /\ UNCHANGED <<admitLog, observed, engine>>

\* the catch block waiting for a provider to come within its rate limit
\* when no fallback is available
PrimaryRejectsWaiting(c) ==
  /\ calls[c].pc = "awaitPrimary"
  /\ \E reads \in ClockScripts(now, lastReset,
                               FallbackReads(ProvidersGet(providers, calls[c].provider), providers, Limiter, now),
                               Instants) :
     \E fb \in {getFallbackProvider(ProvidersGet(providers, calls[c].provider), providers, Limiter, reads)} :
        /\ now' = ReadClock(fb.reads)
        /\ requestCounts' = fb.st.requestCounts
        /\ lastReset' = fb.st.lastReset
        /\ IF fb.provider.name # ""
           THEN /\ calls' = [calls EXCEPT ![c].pc = "awaitFallback", ![c].fallback = fb.provider.name]
                /\ invoked' = Invoked(fb.st, {fb.provider.name})
           ELSE /\ calls' = [calls EXCEPT ![c].pc = "waiting"]
                /\ invoked' = Invoked(fb.st, {})
  /\ UNCHANGED <<providers, admitLog, observed, engine>>

\* it threw: the catch block
PrimaryRejects(c) ==
  /\ calls[c].pc = "awaitPrimary"
  /\ \E reads \in ClockScripts(now, lastReset,
                               FallbackReads(ProvidersGet(providers, calls[c].provider), providers, Limiter, now),
                               Instants) :
     \E fb \in {getFallbackProvider(ProvidersGet(providers, calls[c].provider), providers, Limiter, reads)} :
        /\ now' = ReadClock(fb.reads)
        /\ requestCounts' = fb.st.requestCounts
        /\ lastReset' = fb.st.lastReset
        /\ IF fb.provider.name # ""
           THEN /\ calls' = [calls EXCEPT ![c].pc = "awaitFallback", ![c].fallback = fb.provider.name]
                /\ invoked' = Invoked(fb.st, {fb.provider.name})
           ELSE /\ calls' = [calls EXCEPT ![c].pc = "thrown", ![c].error = calls[c].provider]
                /\ invoked' = Invoked(fb.st, {})
  /\ UNCHANGED <<providers, admitLog, observed, engine>>

\* "await this.callProvider(fallback, request)" returned
FallbackResolves(c) ==
  /\ calls[c].pc = "awaitFallback"
  /\ calls' = [calls EXCEPT ![c].pc = "returned"]
  /\ UNCHANGED <<providers, requestCounts, lastReset, now, invoked, admitLog, observed, engine>>

\* the fallback threw and generate reports the error caught from the first provider
FallbackRejectsFirstError(c) ==
  /\ calls[c].pc = "awaitFallback"
  /\ calls' = [calls EXCEPT ![c].pc = "thrown", ![c].error = calls[c].provider]
  /\ UNCHANGED <<providers, requestCounts, lastReset, now, invoked, admitLog, observed, engine>>

\* it threw inside the catch block: the fallback's error leaves generate
FallbackRejects(c) ==
  /\ calls[c].pc = "awaitFallback"
  /\ calls' = [calls EXCEPT ![c].pc = "thrown", ![c].error = calls[c].fallback]
  /\ UNCHANGED <<providers, requestCounts, lastReset, now, invoked, admitLog, observed, engine>>

\* the wall clock advances to a later instant
Advance(t) ==
  /\ t > now
  /\ now' = t
  /\ UNCHANGED <<providers, requestCounts, lastReset, calls, invoked, admitLog, observed, engine>>

Next ==
  \/ \E request \in Requests : Generate(request)
  \/ \E request \in Requests : SelectProvider(request)
  \/ \E c \in CallIds : PrimaryResolves(c)
  \/ \E c \in CallIds : PrimaryRejects(c)
  \/ \E c \in CallIds : FallbackResolves(c)
  \/ \E c \in CallIds : FallbackRejects(c)
  \/ \E t \in Instants : Advance(t)

Spec == Init /\ [][Next]_vars

\* selection alone: calls are started and selectProvider is called, and no
\* invocation is answered
NextSelect ==
  \/ \E request \in Requests : Generate(request)
  \/ \E request \in Requests : SelectProvider(request)
  \/ \E t \in Instants : Advance(t)

SpecSelect == Init /\ [][NextSelect]_vars

\* ------------------------------------------------------------ scenario runs
\* Runs in which the calls are made one after the other, each one answered
\* before the next is made, and every invocation succeeds. The ledger
\* admitLog lists the requests recorded: provider, instant, and how many
\* (the requests counted before the run starts are one entry).

\* the instants the clock is moved to in the scenario runs: one window after
\* time 0, one millisecond later, and 61 s after time 0
ScenarioInstants == {WindowMs, WindowMs + 1, WindowMs + 1000}

\* the ledger of a limiter whose counts rc were all recorded at instant t
WarmLog(provs, rc, t) ==
  [i \in 1..Len(provs) |-> [provider |-> provs[i].name, at |-> t, n |-> rc[provs[i].name]]]

\* every call made so far has returned or thrown
AllAnswered == \A c \in CallIds : calls[c].pc \in {"returned", "thrown"}

\* a generate() call made after the previous one was answered
ScenarioGenerate(request, maxCalls, instants) ==
  /\ Len(calls) < maxCalls
  /\ AllAnswered
  /\ \E reads \in ClockScripts(now, lastReset, SelectionReads(request, providers, Limiter, now), instants) :
       /\ GenerateStep(request, reads)
       /\ admitLog' = IF calls'[Len(calls')].provider # ""
                      THEN Append(admitLog, [provider |-> calls'[Len(calls')].provider,
                                             at |-> selectProvider(request, providers, Limiter, reads).at,
                                             n |-> 1])
                      ELSE admitLog

\* a selectProvider call made from outside generate() between the calls
ScenarioSelect(request, instants) ==
  \E reads \in ClockScripts(now, lastReset, SelectionReads(request, providers, Limiter, now), instants) :
    SelectStep(request, reads)

\* Claude and Ollama enabled, constructed at instant t0; 59 of Claude's 60
\* and 995 of Ollama's 1000 requests of the window are counted (made and
\* answered at t0): Claude has one slot left, Ollama five
ScenarioStart(t0) ==
  /\ providers = initializeProviders({"Claude"})
  /\ requestCounts = [n \in ProviderNames(providers) |->
                        Config(n).rateLimit - (IF n = "Claude" THEN 1 ELSE 5)]
  /\ invoked = requestCounts
  /\ lastReset = t0
  /\ now = t0
  /\ calls = <<>>
  /\ admitLog = WarmLog(providers, requestCounts, t0)
  /\ observed = NoObservation
  /\ engine = NewEngine

InitScenario == ScenarioStart(0)

NextScenario ==
  \/ ScenarioGenerate(BareRequest, ScenarioCalls, ScenarioInstants)
  \/ ScenarioSelect(BareRequest, ScenarioInstants)
  \/ \E c \in CallIds : PrimaryResolves(c)
  \/ \E t \in ScenarioInstants : Advance(t)

SpecScenario == InitScenario /\ [][NextScenario]_vars

\* -------------------------------------------------------------- introspection
\* getStatus reporting the rateLimit in the place of the request count
getStatusReportingLimit(provs, rc) ==
  [totalProviders |-> Len(providerConfigs),
   configuredProviders |-> Len(provs),
   providerDetails |->
     [i \in 1..Len(providerConfigs) |->
        [name |-> providerConfigs[i].name,
         available |-> providerConfigs[i].name \in ProviderNames(provs),
         priority |-> providerConfigs[i].priority,
         requestCount |-> providerConfigs[i].rateLimit,
         capabilities |-> providerConfigs[i].capabilities]]]

\* getStatus: one detail per catalog entry
getStatus(provs, rc) ==
  [totalProviders |-> Len(providerConfigs),
   configuredProviders |-> Len(provs),
   providerDetails |->
     [i \in 1..Len(providerConfigs) |->
        [name |-> providerConfigs[i].name,
         available |-> providerConfigs[i].name \in ProviderNames(provs),
         priority |-> providerConfigs[i].priority,
         requestCount |-> CountOf(rc, providerConfigs[i].name),
         capabilities |-> providerConfigs[i].capabilities]]]

\* a call of getStatus()
GetStatus ==
  /\ observed' = [op |-> "getStatus", value |-> getStatus(providers, requestCounts)]
  /\ UNCHANGED <<providers, requestCounts, lastReset, now, calls, invoked, admitLog, engine>>

\* a call of getAvailableProviders()
ListAvailable ==
  /\ observed' = [op |-> "getAvailableProviders", value |-> getAvailableProviders(providers)]
  /\ UNCHANGED <<providers, requestCounts, lastReset, now, calls, invoked, admitLog, engine>>

\* the scenario runs with introspection calls made between the calls
NextStatus ==
  \/ ScenarioGenerate(BareRequest, ScenarioCalls, ScenarioInstants)
  \/ ScenarioSelect(BareRequest, ScenarioInstants)
  \/ \E c \in CallIds : PrimaryResolves(c)
  \/ \E t \in ScenarioInstants : Advance(t)
  \/ GetStatus
  \/ ListAvailable

SpecStatus == InitScenario /\ [][NextStatus]_vars

\* the wall clock is set back to an earlier instant
Retreat(t) ==
  /\ t < now
  /\ now' = t
  /\ UNCHANGED <<providers, requestCounts, lastReset, calls, invoked, admitLog, observed, engine>>

\* the scenario with a clock that can be set back: the orchestrator is
\* constructed at instant MaxNow
InitClockBack == ScenarioStart(MaxNow)

NextClockBack ==
  \/ ScenarioGenerate(BareRequest, ScenarioCalls, Instants)
  \/ ScenarioSelect(BareRequest, Instants)
  \/ \E c \in CallIds : PrimaryResolves(c)
  \/ \E t \in Instants : Advance(t)
  \/ \E t \in {0} \cup Instants : Retreat(t)

SpecClockBack == InitClockBack /\ [][NextClockBack]_vars

\* a request that prefers Perplexity
BurstRequest == [preferredProvider |-> "Perplexity", requiredCapabilities |-> {}]

\* Perplexity (20 requests per minute) and Ollama enabled, constructed at
\* instant 0; the clock stands one window later and all but Headroom of
\* Perplexity's requests of the window were made at that instant
InitBurst ==
  /\ providers = initializeProviders({"Perplexity"})
  /\ requestCounts = [n \in ProviderNames(providers) |->
                        IF n = "Perplexity" THEN Config(n).rateLimit - Headroom ELSE 0]
  /\ invoked = requestCounts
  /\ lastReset = 0
  /\ now = WindowMs
  /\ calls = <<>>
  /\ admitLog = WarmLog(providers, requestCounts, WindowMs)
  /\ observed = NoObservation
  /\ engine = NewEngine

NextBurst ==
  \/ ScenarioGenerate(BurstRequest, BurstCalls, Instants)
  \/ ScenarioSelect(BurstRequest, Instants)
  \/ \E c \in CallIds : PrimaryResolves(c)
  \/ \E t \in Instants : Advance(t)

SpecBurst == InitBurst /\ [][NextBurst]_vars

\* the awaited invocation of call c settles: it returns a value or throws
Answer(c) ==
  /\ c \in CallIds
  /\ \/ PrimaryResolves(c)
     \/ PrimaryRejects(c)
     \/ FallbackResolves(c)
     \/ FallbackRejects(c)

\* calls in flight at the same time, started with Claude at one slot and
\* Ollama at five, every provider invocation eventually returning a value
\* or an error
SpecLive == InitScenario /\ [][Next]_vars /\ \A c \in 1..MaxCalls : WF_vars(Answer(c))

\* ------------------------------------------------------------ LearningEngine
\* this.queryHistory.length
HistoryLength(e) == e.queryHistory.last - e.queryHistory.first + 1

\* recordQuery, as far as queryHistory and learnAdaptations go: push the
\* query, shift the oldest entry out when the history is longer than
\* maxHistorySize, run learnAdaptations when the length is a multiple of 100
recordQuery(e) ==
  LET pushed == [e.queryHistory EXCEPT !.last = @ + 1]
      kept   == IF pushed.last - pushed.first + 1 > maxHistorySize
                THEN [pushed EXCEPT !.first = @ + 1]
                ELSE pushed
      learns == (kept.last - kept.first + 1) % LearnEvery = 0
  IN [queryHistory |-> kept,
      learnAdaptations |-> e.learnAdaptations + (IF learns THEN 1 ELSE 0),
      recorded |-> e.recorded + 1]

\* the engine after k recordQuery calls on a new engine, k <= maxHistorySize
EngineAfter(k) ==
  [queryHistory |-> [first |-> 1, last |-> k], learnAdaptations |-> k \div LearnEvery, recorded |-> k]

\* a new engine, or one that has recorded all but 100 of the queries its
\* history can hold; the orchestrator is not used
InitLearning ==
  /\ providers = initializeProviders({})
  /\ requestCounts = [n \in ProviderNames(providers) |-> 0]
  /\ invoked = requestCounts
  /\ lastReset = 0
  /\ now = 0
  /\ calls = <<>>
  /\ admitLog = <<>>
  /\ observed = NoObservation
  /\ \E k \in {0, maxHistorySize - LearnEvery} : engine = EngineAfter(k)

\* a call of recordQuery(context, responses)
RecordQuery ==
  /\ engine.recorded < maxHistorySize + MaxQueries
  /\ engine' = recordQuery(engine)
  /\ UNCHANGED <<providers, requestCounts, lastReset, now, calls, invoked, admitLog, observed>>

NextLearning == RecordQuery

SpecLearning == InitLearning /\ [][NextLearning]_vars

\* =================================================================== claims
Enabled == ProviderNames(providers)

\* would an admission check of provider n pass on limiter state st at time t
Admits(n, st, t) == isWithinRateLimit(ProvidersGet(providers, n), st, t).ok

\* the elements of a sequence
Range(s) == {s[i] : i \in 1..Len(s)}

\* C1: within one rate window the number of callProvider calls made to a
\* provider (as first choice or as fallback) never exceeds its rateLimit.
C1_InvocationsWithinLimit ==
  \A n \in Enabled : invoked[n] <= Config(n).rateLimit

\* C2: in every reachable state every enabled provider's request count is
\* at least 0 and at most its rateLimit.
C2_CountWithinLimit ==
  \A n \in Enabled : requestCounts[n] >= 0 /\ requestCounts[n] <= Config(n).rateLimit

\* C2 witness: a call took a provider's last slot and a later call, which
\* would have been given that provider, was given another one or none
C2_Witness ==
  \E c, d \in CallIds :
    /\ c < d
    /\ calls[c].provider # ""
    /\ requestCounts[calls[c].provider] = Config(calls[c].provider).rateLimit
    /\ calls[d].provider # calls[c].provider
    /\ calls[d].request = calls[c].request

\* C3: under any interleaving of generate() calls, every increment of a
\* provider's count happens in the step that observed count < rateLimit and
\* raises the count by exactly one: no two calls both pass the check on the
\* same value and take the count past the limit.
C3_CheckAndIncrementIndivisible ==
  [][\A n \in Enabled :
        requestCounts'[n] > requestCounts[n] =>
          /\ requestCounts[n] < Config(n).rateLimit
          /\ requestCounts'[n] = requestCounts[n] + 1
          /\ requestCounts'[n] <= Config(n).rateLimit]_vars

\* C3 witness: two calls are in flight at once; the first took the last slot
\* of a provider and the second, made while the first was still waiting,
\* was turned to a provider of lower priority
C3_Witness ==
  /\ Len(calls) = 2
  /\ calls[1].pc = "awaitPrimary" /\ calls[2].pc = "awaitPrimary"
  /\ calls[1].request = calls[2].request
  /\ requestCounts[calls[1].provider] = Config(calls[1].provider).rateLimit
  /\ Config(calls[1].provider).priority < Config(calls[2].provider).priority

\* C4: once a provider's count has reached its rateLimit (rateLimit
\* admissions were recorded in the window), every step taken in the same
\* window rejects it: it is neither admitted nor invoked, and its count
\* stays.
C4_RejectedOnceExhausted ==
  [][\A n \in Enabled :
        (requestCounts[n] >= Config(n).rateLimit /\ lastReset' = lastReset) =>
          /\ requestCounts'[n] = requestCounts[n]
          /\ invoked'[n] = invoked[n]]_vars

\* C4 witness: every enabled provider is at its limit and a call made in
\* that window was refused for want of a provider
C4_Witness ==
  /\ \A n \in Enabled : requestCounts[n] = Config(n).rateLimit
  /\ \E c \in CallIds : calls[c].pc = "thrown" /\ calls[c].provider = ""

\* C5: a request with required capabilities is never routed to (selected for
\* or invoked as a fallback for) a provider that lacks one of them.
C5_CapabilitiesRespected ==
  \A c \in CallIds :
    calls[c].request.requiredCapabilities # {} =>
      \A n \in Range(Attempted(calls[c])) :
        calls[c].request.requiredCapabilities \subseteq Config(n).capabilities

\* C6: when every invocation of a call failed and all n enabled providers
\* were within their limits (no reset since construction and every count
\* still below its limit), the call attempted exactly n providers, each
\* enabled provider once.
C6_ExhaustsEveryProvider ==
  \A c \in CallIds :
    ( /\ calls[c].pc = "thrown"
      /\ lastReset = 0
      /\ \A n \in Enabled : requestCounts[n] < Config(n).rateLimit ) =>
      /\ Len(Attempted(calls[c])) = Cardinality(Enabled)
      /\ Range(Attempted(calls[c])) = Enabled

\* C7: a call ends in failure only on total exhaustion: the step that makes
\* a call throw leaves no enabled provider that the call has not attempted
\* and that passes the admission check (whether an invocation succeeds is
\* the environment's choice, so any such provider is one that would have
\* succeeded in some run).
C7_FailureOnlyOnExhaustion ==
  [][\A c \in 1..Len(calls') :
        ((c > Len(calls) \/ calls[c].pc # "thrown") /\ calls'[c].pc = "thrown") =>
          ~ \E n \in Enabled :
               /\ n \notin Range(Attempted(calls'[c]))
               /\ Admits(n, Limiter, now)]_vars

\* the provider the selection rule gives once the providers in tried are
\* excluded: the first enabled provider in priority order that is not in
\* tried and passes the admission check (the clock standing still)
NextUntried(tried) ==
  FirstWithin(getAvailableProviders(providers), 1, Enabled \ tried,
              Limiter, <<now>>).provider.name

\* C8: after the invocation of the selected provider failed, the provider
\* attempted next is the highest-priority enabled provider, not yet
\* attempted, that passes admission (none is attempted only when there is
\* none), also when that provider has a higher priority than the failed one
\* (stated for the steps during which the clock stands still).
C8_FallbackIsNextEligible ==
  [][\A c \in CallIds :
        ( /\ calls[c].pc = "awaitPrimary"
          /\ calls'[c].pc \in {"awaitFallback", "thrown"}
          /\ now' = now ) =>
          calls'[c].fallback = NextUntried({calls[c].provider})]_vars

\* C9: within one call no provider is invoked more than once and the number
\* of invocations is at most the number of enabled providers.
C9_AtMostOncePerCall ==
  \A c \in CallIds :
    /\ \A i, j \in 1..Len(Attempted(calls[c])) :
          i # j => Attempted(calls[c])[i] # Attempted(calls[c])[j]
    /\ Len(Attempted(calls[c])) <= Len(providers)

\* C9 witness: a call whose two invocations both failed, with two providers
\* enabled: as many invocations as there are providers
C9_Witness ==
  \E c \in CallIds :
    /\ calls[c].pc = "thrown"
    /\ calls[c].fallback # ""
    /\ Len(providers) = 2

\* the requests C10 is stated for: no preference, each provider that can be
\* enabled, a catalog provider that is not enabled (OpenAI) and a name
\* outside the catalog, each with and without a capability requirement
PreferenceRequests ==
  [preferredProvider : {"", "Claude", "Ollama", "Gemini", "OpenAI", "Unknown"},
   requiredCapabilities : {{}, {"vision"}}]

\* what the clock can show to the checks of one selection made now: it
\* stands still, or it moves past the end of the window before any read
\* after the first
AnyScripts == ClockScripts(now, lastReset, 1 + 2 * Len(providers), Instants)

\* the instant of the i-th clock read of a script
ReadAt(reads, i) == reads[IF i < Len(reads) THEN i ELSE Len(reads)]

\* C10: selection returns the preferred provider exactly when that provider
\* is enabled and within its rate limit; otherwise it returns what it
\* returns for the same request without the preference. Whatever the clock
\* does during the selection: the preferred provider is returned when it is
\* enabled and its check (the first clock read) finds it within its limit;
\* when not, the result is that of the same request without the preference
\* on the clock reads that follow; and the preferred provider is never
\* returned unless it is enabled and within its limit at one of the reads.
C10_PreferredOverride ==
  \A request \in PreferenceRequests :
    \A reads \in AnyScripts :
      LET pref == request.preferredProvider
      IN \A ok \in {(pref \in Enabled) /\ Admits(pref, Limiter, ReadClock(reads))} :
         \A sel \in {selectProvider(request, providers, Limiter, reads).provider.name} :
           /\ ok => sel = pref
           /\ ~ok => sel = selectProvider([request EXCEPT !.preferredProvider = ""], providers, Limiter,
                                          IF pref \in Enabled THEN Later(reads) ELSE reads).provider.name
           /\ (pref # "" /\ sel = pref) =>
                /\ pref \in Enabled
                /\ \E i \in 1..Len(reads) : Admits(pref, Limiter, reads[i])
           /\ (pref # "" /\ Len(reads) = 1) => (sel = pref <=> ok)

\* C10 witness: a call that preferred Ollama was given Ollama although
\* Claude, of higher priority, was enabled and within its limit
C10_Witness ==
  \E c \in CallIds :
    /\ calls[c].request.preferredProvider = "Ollama"
    /\ calls[c].provider = "Ollama"
    /\ "Claude" \in Enabled
    /\ requestCounts["Claude"] < Config("Claude").rateLimit

\* the place of an enabled provider in priority order (1 = first checked)
Rank(n) ==
  1 + Cardinality({m \in Enabled : ProvidersGet(providers, m).priority
                                     < ProvidersGet(providers, n).priority})

\* C11: for a request with no preferred provider and no required
\* capabilities, selection returns the enabled provider of lowest priority
\* value among those within their rate limit (every enabled provider of
\* higher priority is at its limit), and returns null only when every enabled
\* provider is at its limit. Each provider is judged at the instant its own
\* check reads the clock (the k-th provider in priority order at the k-th
\* read), on the counts and window start the selection began with.
C11_LowestPriorityWithinLimit ==
  \A reads \in AnyScripts :
    \A sel \in {selectProvider(BareRequest, providers, Limiter, reads).provider} :
       /\ sel.name # "" =>
            /\ sel.name \in Enabled
            /\ Admits(sel.name, Limiter, ReadAt(reads, Rank(sel.name)))
            /\ \A n \in Enabled :
                  ProvidersGet(providers, n).priority < sel.priority =>
                    ~Admits(n, Limiter, ReadAt(reads, Rank(n)))
       /\ sel.name = "" => \A n \in Enabled : ~Admits(n, Limiter, ReadAt(reads, Rank(n)))

\* C11 witness: a call without preference or capabilities was given Ollama
\* while Claude, of higher priority, stands at its limit
C11_Witness ==
  \E c \in CallIds :
    /\ calls[c].request = BareRequest
    /\ calls[c].provider = "Ollama"
    /\ "Claude" \in Enabled
    /\ requestCounts["Claude"] = Config("Claude").rateLimit
    /\ lastReset = 0

\* the count of provider n that a step starts from: 0 when the step resets
\* the window, its count before the step otherwise
Base(n) == IF lastReset' # lastReset THEN 0 ELSE requestCounts[n]

\* the provider a step selects for call c: the provider of a call that the
\* step starts, the fallback of a call whose first invocation failed in
\* the step, "" when the step selects nothing for c
SelectedInStep(c) ==
  IF c > Len(calls) THEN calls'[c].provider
  ELSE IF calls[c].pc = "awaitPrimary" /\ calls'[c].pc = "awaitFallback" THEN calls'[c].fallback
  ELSE ""

\* C12: every successful selection (the first of a call and the one made
\* after a failure) consumes exactly one admission slot: the count of the
\* provider returned is one higher than before the selection and no other
\* provider's count has increased.
C12_SelectionConsumesOneSlot ==
  [][\A c \in 1..Len(calls') :
        SelectedInStep(c) # "" =>
          /\ requestCounts'[SelectedInStep(c)] = Base(SelectedInStep(c)) + 1
          /\ \A q \in Enabled \ {SelectedInStep(c)} : requestCounts'[q] <= Base(q)]_vars

\* C13: an admission check made at time now resets the window exactly when
\* now - windowStart >= 60 s (a step that starts a call makes an admission
\* check, at the instant now when the clock stands still during the step);
\* in particular a check exactly 60 s after the window start resets.
C13_ResetAtSixtySeconds ==
  [][(Len(calls') > Len(calls) /\ now' = now) =>
        ((lastReset' # lastReset) <=> (now - lastReset >= WindowMs))]_vars

\* C15: rate windows are per provider and independent: a step that admits
\* provider p leaves the count of every other provider as it was.
C15_WindowsIndependent ==
  [][\A c \in 1..Len(calls') :
        (c > Len(calls) /\ calls'[c].provider # "") =>
          \A q \in Enabled \ {calls'[c].provider} : requestCounts'[q] = requestCounts[q]]_vars

\* C16: a rejected admission check mutates nothing: when the check finds a
\* provider at its limit, every count and the window start are the same
\* after the check as before it.
C16_RejectionMutatesNothing ==
  \A n \in Enabled :
    LET r == isWithinRateLimit(ProvidersGet(providers, n), Limiter, now)
    IN ~r.ok => r.st = Limiter

\* C16 witness: a call that preferred Ollama found it at its limit and was
\* given another provider; Ollama's count and the window start are as the
\* rejected check found them
C16_Witness ==
  \E c \in CallIds :
    /\ calls[c].request.preferredProvider = "Ollama"
    /\ calls[c].provider \notin {"", "Ollama"}
    /\ requestCounts["Ollama"] = Config("Ollama").rateLimit
    /\ lastReset = 0

\* the provider whose invocation fails for call c in a step ("" when none)
FailedInStep(c) ==
  IF calls[c].pc = "awaitPrimary" /\ calls'[c].pc \in {"awaitFallback", "thrown"} THEN calls[c].provider
  ELSE IF calls[c].pc = "awaitFallback" /\ calls'[c].pc = "thrown" THEN calls[c].fallback
  ELSE ""

\* C19: an admission is not refunded when the invocation fails: the step in
\* which the invocation of p fails leaves p's count where it was (the slot
\* taken when p was selected stays counted), unless the step starts a new
\* window.
C19_NoRefundOnFailure ==
  [][\A c \in CallIds :
        (FailedInStep(c) # "" /\ lastReset' = lastReset) =>
          requestCounts'[FailedInStep(c)] = requestCounts[FailedInStep(c)]]_vars

\* C19 witness: a call took the last slot of the provider selected for it,
\* the invocation failed, and the provider still stands at its limit
C19_Witness ==
  \E c \in CallIds :
    /\ calls[c].pc \in {"awaitFallback", "thrown"}
    /\ calls[c].provider # ""
    /\ requestCounts[calls[c].provider] = Config(calls[c].provider).rateLimit
    /\ lastReset = 0

\* the rateLimit of an enabled provider
LimitOf(n) == ProvidersGet(providers, n).rateLimit

\* the instant of the last request recorded for provider n in the ledger
LastAdmitted(n) ==
  LET idx == {i \in 1..Len(admitLog) : admitLog[i].provider = n /\ admitLog[i].n > 0}
  IN admitLog[CHOOSE i \in idx : \A j \in idx : j <= i].at

\* C14: a provider whose limit was exhausted at time t0 (its last request
\* was recorded at t0 and filled the window) is admitted again by an
\* admission check made at t0 + 61 s: the check resets the window (window
\* start = now, count 0) and succeeds.
C14_AdmittedAfterRollover ==
  \A n \in Enabled :
    (requestCounts[n] >= LimitOf(n) /\ now = LastAdmitted(n) + WindowMs + 1000) =>
      LET r == isWithinRateLimit(ProvidersGet(providers, n), Limiter, now)
      IN /\ r.ok
         /\ r.st.lastReset = now
         /\ r.st.requestCounts[n] = 0

\* C14 witness: the first call of a run took Claude's last slot at instant
\* t0, and a call made 61 s later was given Claude again by a check that
\* started a new window
C14_Witness ==
  \E i, j \in 1..Len(admitLog) :
    /\ i < j
    /\ admitLog[i].provider = "Claude" /\ admitLog[i].n = 1
    /\ calls[1].provider = "Claude"
    /\ admitLog[j].provider = "Claude"
    /\ admitLog[j].at = admitLog[i].at + WindowMs + 1000
    /\ lastReset = admitLog[j].at

\* C17: if the clock goes backward so that now < windowStart, an admission
\* check does not reset the window: the counts and the window start keep
\* their values and a provider at its limit stays rejected.
C17_NoResetOnClockBack ==
  now < lastReset =>
    \A n \in Enabled :
      LET r == isWithinRateLimit(ProvidersGet(providers, n), Limiter, now)
      IN /\ r.st = Limiter
         /\ requestCounts[n] >= LimitOf(n) => ~r.ok

\* C17 witness: with the clock behind the window start, a call found Claude
\* at its limit and was given Ollama; Claude still stands at its limit
C17_Witness ==
  \E i \in 1..Len(admitLog) :
    /\ admitLog[i].provider = "Ollama"
    /\ admitLog[i].at < lastReset
    /\ requestCounts["Claude"] = LimitOf("Claude")

\* the requests recorded for provider n at instants from..to, from ledger
\* entry i on
RECURSIVE AdmissionsIn(_, _, _, _)
AdmissionsIn(n, from, to, i) ==
  IF i > Len(admitLog) THEN 0
  ELSE (IF admitLog[i].provider = n /\ admitLog[i].at >= from /\ admitLog[i].at <= to
        THEN admitLog[i].n ELSE 0) + AdmissionsIn(n, from, to, i + 1)

\* C18: with a monotonic clock, for every provider with limit L the number
\* of admissions granted in any time span of at most 60 s (it is enough to
\* take the spans that start at an admission) is at most 2 x L.
C18_AtMostTwiceLimitPerSpan ==
  \A n \in Enabled : \A i \in 1..Len(admitLog) :
    AdmissionsIn(n, admitLog[i].at, admitLog[i].at + WindowMs, 1) <= 2 * LimitOf(n)

\* C18 witness: Perplexity was admitted 2 x L times within one millisecond,
\* L times at the end of one window and L times at the start of the next
C18_Witness ==
  /\ AdmissionsIn("Perplexity", WindowMs, WindowMs + 1, 1) = 2 * LimitOf("Perplexity")
  /\ lastReset = WindowMs + 1

\* C20 as stated, with Claude (one slot left) as A and Ollama (five slots
\* left) as B, every invocation succeeding and every call made in the first
\* window (the clock has not moved): the first call is routed to A, the
\* second through seventh calls to B, the eighth call gets Unavailable.
C20_ScenarioRouting ==
  now = 0 =>
    \A c \in CallIds :
      /\ c = 1 => calls[c].provider = "Claude"
      /\ c \in 2..7 => calls[c].provider = "Ollama"
      /\ c = 8 => calls[c].provider = "" /\ calls[c].pc = "thrown"

\* C20 amended: the first call is routed to A, the second through sixth
\* calls to B (B's five slots), and the seventh and every later call of the
\* window gets Unavailable ("No LLM provider available").
C20_ScenarioRoutingAmended ==
  now = 0 =>
    \A c \in CallIds :
      /\ c = 1 => calls[c].provider = "Claude"
      /\ c \in 2..6 => calls[c].provider = "Ollama"
      /\ c >= 7 => /\ calls[c].provider = ""
                   /\ calls[c].pc = "thrown"
                   /\ calls[c].error = "No LLM provider available"

\* C20 witness: eight calls were made in the first window; the sixth was
\* given Ollama and the seventh and eighth were refused
C20_Witness ==
  /\ now = 0
  /\ Len(calls) = 8
  /\ calls[6].provider = "Ollama"
  /\ calls[7].pc = "thrown" /\ calls[8].pc = "thrown"

\* C21: when at least one provider is enabled, generate never throws for
\* exhaustion (no provider selectable, or every attempted provider failed):
\* no call ends by throwing.
C21_NeverThrowsForExhaustion ==
  \A c \in CallIds : Enabled # {} => calls[c].pc # "thrown"

\* C23: when a call ends in failure after at least one attempt, the error
\* reported is the error of the last provider attempted in that call; when
\* no provider was selectable, the step that refuses the call invokes no
\* provider and the failure is "No LLM provider available".
C23_LastErrorReported ==
  [][\A c \in 1..Len(calls') :
        ((c > Len(calls) \/ calls[c].pc # "thrown") /\ calls'[c].pc = "thrown") =>
          IF Attempted(calls'[c]) # <<>>
          THEN calls'[c].error = Attempted(calls'[c])[Len(Attempted(calls'[c]))]
          ELSE /\ calls'[c].error = "No LLM provider available"
               /\ \A n \in Enabled : invoked'[n] <= invoked[n]]_vars

\* C23 witness: a call failed on its first provider and then on its
\* fallback, and the error it reports is the fallback's, not the first
\* provider's
C23_Witness ==
  \E c \in CallIds :
    /\ calls[c].pc = "thrown"
    /\ calls[c].fallback # "" /\ calls[c].fallback # calls[c].provider
    /\ calls[c].error = calls[c].fallback

\* the position of a provider in the catalog
CatalogIndex(n) == CHOOSE i \in 1..Len(providerConfigs) : providerConfigs[i].name = n

\* C24: the list of enabled providers is always returned sorted ascending
\* by priority, with equal priorities kept in catalog order; it holds
\* exactly the enabled providers, and no step changes the sequence returned.
C24_ListSortedAndStable ==
  /\ [](LET av == getAvailableProviders(providers)
        IN /\ Len(av) = Len(providers)
           /\ Range(av) = Range(providers)
           /\ \A i, j \in 1..Len(av) :
                 i < j => /\ av[i].priority <= av[j].priority
                          /\ av[i].priority = av[j].priority =>
                               CatalogIndex(av[i].name) < CatalogIndex(av[j].name))
  /\ [][getAvailableProviders(providers') = getAvailableProviders(providers)]_vars

\* C24 witness: three providers are enabled and a call that needed vision
\* walked the list to its last entry, Gemini
C24_Witness ==
  /\ Len(providers) = 3
  /\ \E c \in CallIds :
       /\ calls[c].request.requiredCapabilities = {"vision"}
       /\ calls[c].provider = "Gemini"
  /\ getAvailableProviders(providers)[3].name = "Gemini"

\* C25: after any sequence of operations the enabled providers are those
\* resolved at initialization: exactly the catalog entries whose credential
\* was configured plus Ollama, each with its catalog descriptor; no step
\* adds, removes or alters a provider.
C25_EnabledSetFixed ==
  /\ [](\E configured \in SUBSET Configurable :
          /\ Enabled = configured \cup {"Ollama"}
          /\ \A n \in Enabled : ProvidersGet(providers, n) = Config(n)
          /\ Len(providers) = Cardinality(Enabled))
  /\ [][providers' = providers]_vars

\* C25 witness: three providers were enabled at initialization; after an
\* invocation failed, a fallback was invoked and a window was reset, the
\* same three are enabled
C25_Witness ==
  /\ Len(providers) = 3
  /\ lastReset > 0
  /\ \E c \in CallIds : calls[c].pc = "awaitFallback"

\* C26: status introspection (getStatus, getAvailableProviders) is a pure
\* read: a step that returns a report leaves every window count, the window
\* start and the enabled set unchanged; the count getStatus reports for a
\* provider is its current window count (0 for a provider that is not
\* enabled), and the list getAvailableProviders returns holds exactly the
\* enabled providers.
C26_IntrospectionIsPureRead ==
  [][observed' # observed =>
       /\ requestCounts' = requestCounts
       /\ lastReset' = lastReset
       /\ providers' = providers
       /\ observed'.op = "getStatus" =>
            /\ observed'.value.configuredProviders = Cardinality(Enabled)
            /\ \A i \in 1..Len(observed'.value.providerDetails) :
                 LET d == observed'.value.providerDetails[i]
                 IN /\ d.available <=> d.name \in Enabled
                    /\ d.requestCount = IF d.name \in Enabled THEN requestCounts[d.name] ELSE 0
       /\ observed'.op = "getAvailableProviders" => NamesOf(observed'.value) = Enabled]_vars

\* C26 witness: getStatus was called after Claude's last slot was taken and
\* reports Claude at 60 requests, the count the limiter holds
C26_Witness ==
  /\ observed.op = "getStatus"
  /\ Len(calls) >= 2
  /\ observed.value.providerDetails[CatalogIndex("Claude")].requestCount = LimitOf("Claude")
  /\ requestCounts["Claude"] = LimitOf("Claude")

\* C27: every generate call eventually terminates, with a success or a
\* terminal failure, provided each provider invocation eventually returns a
\* value or an error.
C27_EveryCallTerminates ==
  \A c \in 1..MaxCalls :
    (Len(calls) >= c) ~> (Len(calls) >= c /\ calls[c].pc \in {"returned", "thrown"})

\* C27 witness: a call ended after both its invocations, and another ended
\* while it was still waiting for its first
C27_Witness ==
  /\ Len(calls) = 2
  /\ calls[1].pc = "awaitFallback"
  /\ calls[2].pc \in {"returned", "thrown"}
  /\ calls[2].provider # ""

\* C28: dispatch keeps no state across calls: the provider a new call is
\* given is decided by the request, the enabled set, the window counts and
\* the clock alone (what the clock shows to the checks of the selection;
\* for a request without preference or capabilities made while the clock
\* stands still: the first enabled provider within its limit, none
\* excluded), so a provider whose invocation failed in an earlier call is
\* selected again.
C28_DispatchStateless ==
  [][\A c \in 1..Len(calls') :
        c > Len(calls) =>
          /\ \E reads \in AnyScripts :
                /\ calls'[c].provider =
                     selectProvider(calls'[c].request, providers, Limiter, reads).provider.name
                /\ now' = ReadClock(selectProvider(calls'[c].request, providers, Limiter, reads).reads)
          /\ (calls'[c].request = BareRequest /\ now' = now) =>
                calls'[c].provider = NextUntried({})]_vars

\* C28 witness: the invocation of Claude failed in the first call, and the
\* second call was given Claude again
C28_Witness ==
  /\ Len(calls) = 2
  /\ calls[1].provider = "Claude" /\ calls[1].pc \in {"awaitFallback", "thrown"}
  /\ calls[2].provider = "Claude" /\ calls[2].request = BareRequest

\* C29: between two window resets no provider's request count ever
\* decreases; a count only goes down in a reset step, and a reset step
\* moves lastReset forward (to the instant of the check) and sets the counts
\* of all enabled providers to 0 (the provider the step admits then counts
\* its one request), all in the same step.
C29_CountsFallOnlyOnReset ==
  [][/\ lastReset' = lastReset =>
          \A n \in Enabled : requestCounts'[n] >= requestCounts[n]
     /\ lastReset' # lastReset =>
          /\ lastReset' > lastReset
          /\ lastReset' \in {now, now'}
          /\ \A n \in Enabled :
               requestCounts'[n] =
                 IF \E c \in 1..Len(calls') : c > Len(calls) /\ calls'[c].provider = n
                 THEN 1 ELSE 0]_vars

\* C29 witness: a provider was admitted for a call and a later reset step
\* took every count, that provider's too, back to 0
C29_Witness ==
  /\ lastReset > 0
  /\ \A n \in Enabled : requestCounts[n] = 0
  /\ \E c \in CallIds : calls[c].provider # ""

\* C30: recordQuery keeps queryHistory at no more than maxHistorySize
\* entries by evicting the oldest entry (the query just recorded is kept),
\* and runs learnAdaptations once per 100 recorded queries: a call runs it
\* exactly when the number of queries recorded so far is a multiple of 100,
\* also after the history has reached maxHistorySize.
C30_BoundedHistoryPeriodicLearning ==
  [][engine' # engine =>
       /\ HistoryLength(engine') <= maxHistorySize
       /\ engine'.queryHistory.last = engine.queryHistory.last + 1
       /\ engine'.queryHistory.first \in {engine.queryHistory.first, engine.queryHistory.first + 1}
       /\ engine'.queryHistory.first # engine.queryHistory.first => HistoryLength(engine) = maxHistorySize
       /\ engine'.learnAdaptations =
            engine.learnAdaptations + (IF engine'.recorded % LearnEvery = 0 THEN 1 ELSE 0)]_vars

TypeOK ==
  /\ \A n \in DOMAIN requestCounts : requestCounts[n] \in Nat
  /\ DOMAIN requestCounts = Enabled
  /\ lastReset <= now
====
